---- MODULE Spec2Model ----
(***************************************************************************)
(* A model of the QCW parser of src/app.py: parse_qcw_with_mapping and the *)
(* helpers it calls.                                                       *)
(*                                                                         *)
(* Representation.  A Python str is a tuple of one-character strings, so   *)
(* that split, startswith, lower/upper, float() and the format             *)
(* specifications are computed character by character.  Python's None is   *)
(* the value None below, which is no tuple of characters.  A float is a    *)
(* sign and an exact fraction [neg, num, den]; the sign is kept apart so   *)
(* that -0.0 exists.  Arithmetic on these fractions is exact: the binary   *)
(* rounding of IEEE doubles is not modelled.  An insertion-ordered dict is *)
(* a sequence of [key, val] records in insertion order.                    *)
(***************************************************************************)
EXTENDS Integers, Sequences, FiniteSets, TLC

\* ------------------------------------------------------------------------
\* Python values

None == <<"None">>

Digits == <<"0", "1", "2", "3", "4", "5", "6", "7", "8", "9">>

IsDigit(c) == \E i \in 1..10 : Digits[i] = c

DigitVal(c) == (CHOOSE i \in 1..10 : Digits[i] = c) - 1

\* code points of the characters the inputs use (ord)
Ord(c) ==
  CASE c = " " -> 32
    [] c = "+" -> 43
    [] c = "-" -> 45
    [] c = "." -> 46
    [] c = "/" -> 47
    [] IsDigit(c) -> 48 + DigitVal(c)
    [] c = ":" -> 58
    [] c = "A" -> 65 [] c = "B" -> 66 [] c = "C" -> 67 [] c = "E" -> 69
    [] c = "F" -> 70 [] c = "L" -> 76 [] c = "M" -> 77 [] c = "N" -> 78
    [] c = "O" -> 79 [] c = "P" -> 80 [] c = "S" -> 83 [] c = "V" -> 86
    [] c = "W" -> 87 [] c = "X" -> 88 [] c = "Y" -> 89
    [] c = "_" -> 95
    [] c = "a" -> 97 [] c = "b" -> 98 [] c = "c" -> 99 [] c = "d" -> 100
    [] c = "e" -> 101 [] c = "g" -> 103 [] c = "h" -> 104 [] c = "i" -> 105
    [] c = "l" -> 108 [] c = "m" -> 109 [] c = "n" -> 110 [] c = "o" -> 111
    [] c = "p" -> 112 [] c = "r" -> 114 [] c = "s" -> 115 [] c = "t" -> 116
    [] c = "x" -> 120 [] c = "y" -> 121
    [] OTHER -> 0

\* str < str: Python compares strings by code point, a proper prefix first
RECURSIVE StrLess(_, _)
StrLess(a, b) ==
  IF b = <<>> THEN FALSE
  ELSE IF a = <<>> THEN TRUE
  ELSE IF Head(a) = Head(b) THEN StrLess(Tail(a), Tail(b))
  ELSE Ord(Head(a)) < Ord(Head(b))

\* str.lower() and str.upper() on one character
LowerChar(c) ==
  CASE c = "A" -> "a" [] c = "B" -> "b" [] c = "C" -> "c" [] c = "E" -> "e"
    [] c = "F" -> "f" [] c = "L" -> "l" [] c = "M" -> "m" [] c = "N" -> "n"
    [] c = "O" -> "o" [] c = "P" -> "p" [] c = "S" -> "s" [] c = "V" -> "v"
    [] c = "W" -> "w" [] c = "X" -> "x" [] c = "Y" -> "y"
    [] OTHER -> c

UpperChar(c) ==
  CASE c = "a" -> "A" [] c = "b" -> "B" [] c = "c" -> "C" [] c = "d" -> "D"
    [] c = "e" -> "E" [] c = "g" -> "G" [] c = "h" -> "H" [] c = "i" -> "I"
    [] c = "l" -> "L" [] c = "m" -> "M" [] c = "n" -> "N" [] c = "o" -> "O"
    [] c = "p" -> "P" [] c = "r" -> "R" [] c = "s" -> "S" [] c = "t" -> "T"
    [] c = "x" -> "X" [] c = "y" -> "Y"
    [] OTHER -> c

Lower(s) == [i \in 1..Len(s) |-> LowerChar(s[i])]

Upper(s) == [i \in 1..Len(s) |-> UpperChar(s[i])]

StartsWith(s, p) == Len(s) >= Len(p) /\ SubSeq(s, 1, Len(p)) = p

\* str.split(sep) for a one-character separator: the list of the pieces
RECURSIVE Split(_, _)
Split(s, sep) ==
  IF \A i \in 1..Len(s) : s[i] # sep THEN <<s>>
  ELSE LET k == CHOOSE i \in 1..Len(s) :
                  s[i] = sep /\ \A j \in 1..(i - 1) : s[j] # sep
       IN <<SubSeq(s, 1, k - 1)>> \o Split(SubSeq(s, k + 1, Len(s)), sep)

\* str(value): the text of None is "None"
Str(v) == IF v = None THEN <<"N", "o", "n", "e">> ELSE v

\* ------------------------------------------------------------------------
\* float() and the format specifications

RECURSIVE Pow10(_)
Pow10(k) == IF k = 0 THEN 1 ELSE 10 * Pow10(k - 1)

AllDigits(s) == \A i \in 1..Len(s) : IsDigit(s[i])

RECURSIVE DigitsVal(_)
DigitsVal(s) ==
  IF s = <<>> THEN 0 ELSE 10 * DigitsVal(SubSeq(s, 1, Len(s) - 1)) + DigitVal(s[Len(s)])

\* str.strip(): leading and trailing blanks removed
RECURSIVE Strip(_)
Strip(s) ==
  IF s = <<>> THEN s
  ELSE IF Head(s) = " " THEN Strip(Tail(s))
  ELSE IF s[Len(s)] = " " THEN Strip(SubSeq(s, 1, Len(s) - 1))
  ELSE s

\* the mantissa "digits[.digits]" (one side of the point may be empty)
MantissaOk(s) ==
  LET p == Split(s, ".")
  IN /\ Len(p) \in {1, 2}
     /\ \A i \in 1..Len(p) : AllDigits(p[i])
     /\ \E i \in 1..Len(p) : p[i] # <<>>

\* float(text) over the alphabet of the inputs (digits, sign, point, blank,
\* letters other than e): [sign]digits[.digits][e[sign]digits] between
\* optional blanks is a number; None raises TypeError and every other text
\* ValueError.  The result is [ok, exc, neg, num, den].
FloatErr(exc) == [ok |-> FALSE, exc |-> exc, neg |-> FALSE, num |-> 0, den |-> 1]

Unsigned(s) == IF s # <<>> /\ Head(s) \in {"+", "-"} THEN Tail(s) ELSE s

Float(text) ==
  IF text = None THEN FloatErr("TypeError")
  ELSE
    LET t    == Strip(text)
        neg  == t # <<>> /\ Head(t) = "-"
        body == Unsigned(t)
        me   == Split(body, "e")
        man  == me[1]
        mp   == Split(man, ".")
        frac == IF Len(mp) = 2 THEN mp[2] ELSE <<>>
        ex   == IF Len(me) = 2 THEN me[2] ELSE <<"0">>
        exn  == ex # <<>> /\ Head(ex) = "-"
        exd  == Unsigned(ex)
        ok   == /\ Len(me) \in {1, 2}
                /\ MantissaOk(man)
                /\ exd # <<>> /\ AllDigits(exd)
    IN IF ~ok THEN FloatErr("ValueError")
       ELSE LET m == DigitsVal(mp[1] \o frac)
                d == Pow10(Len(frac))
                e == DigitsVal(exd)
            IN [ok |-> TRUE, exc |-> "", neg |-> neg,
                num |-> IF exn THEN m ELSE m * Pow10(e),
                den |-> IF exn THEN d * Pow10(e) ELSE d]

IsZero(x) == x.num = 0

\* x - y; an exact zero difference is +0.0 (round-to-nearest)
FSub(x, y) ==
  LET a == (IF x.neg THEN 0 - x.num ELSE x.num) * y.den
      b == (IF y.neg THEN 0 - y.num ELSE y.num) * x.den
      n == a - b
  IN [neg |-> IF n = 0 THEN x.neg /\ ~y.neg /\ x.num = 0 /\ y.num = 0 ELSE n < 0,
      num |-> IF n < 0 THEN 0 - n ELSE n,
      den |-> x.den * y.den]

\* x / y for y # 0
FDiv(x, y) ==
  [neg |-> x.neg # y.neg, num |-> x.num * y.den, den |-> x.den * y.num]

\* x * k for a positive integer k
FMulInt(x, k) == [neg |-> x.neg, num |-> x.num * k, den |-> x.den]

\* x / k for a positive integer k
FDivInt(x, k) == [neg |-> x.neg, num |-> x.num, den |-> x.den * k]

\* abs(x) > k for a non-negative integer k
AbsGreater(x, k) == x.num > k * x.den

\* round(num / den) to the nearest integer, a tie going to the even one
RoundHalfEven(num, den) ==
  LET q == num \div den
      r == num % den
  IN IF 2 * r < den THEN q
     ELSE IF 2 * r > den THEN q + 1
     ELSE IF q % 2 = 0 THEN q ELSE q + 1

RECURSIVE NatStr(_)
NatStr(n) ==
  IF n < 10 THEN <<Digits[n + 1]>> ELSE NatStr(n \div 10) \o <<Digits[(n % 10) + 1]>>

\* f"{x:.2f}"
Fmt2(x) ==
  LET h == RoundHalfEven(x.num * 100, x.den)
  IN (IF x.neg THEN <<"-">> ELSE <<>>)
       \o NatStr(h \div 100) \o <<".">>
       \o <<Digits[((h % 100) \div 10) + 1], Digits[(h % 10) + 1]>>

\* f"{x:.0f}"
Fmt0(x) ==
  (IF x.neg THEN <<"-">> ELSE <<>>) \o NatStr(RoundHalfEven(x.num, x.den))

\* ------------------------------------------------------------------------
\* dict: insertion-ordered, a sequence of [key, val]

DictKeys(d) == [i \in 1..Len(d) |-> d[i].key]

DictHas(d, k) == \E i \in 1..Len(d) : d[i].key = k

DictIndex(d, k) == CHOOSE i \in 1..Len(d) : d[i].key = k

DictGet(d, k) == d[DictIndex(d, k)].val

\* d[k] = v: a new key goes last, an old key keeps its place
DictSet(d, k, v) ==
  IF DictHas(d, k) THEN [d EXCEPT ![DictIndex(d, k)].val = v]
  ELSE Append(d, [key |-> k, val |-> v])

\* d.get(k, default)
DictGetDefault(d, k, default) == IF DictHas(d, k) THEN DictGet(d, k) ELSE default

\* ------------------------------------------------------------------------
\* The XML tree.  An element that find() does not find is Absent; the text
\* of an element without content is None.

Absent == <<"Absent">>

Wedge == <<"W", "e", "d", "g", "e">>

\* ------------------------------------------------------------------------
\* HELPERS

\* format_fieldsize_mm_to_cm(field_text): any exception inside the try
\* (None has no split, not exactly two pieces, float fails) returns the
\* argument unchanged
format_fieldsize_mm_to_cm(field_text) ==
  IF field_text = None THEN field_text
  ELSE LET parts == Split(field_text, "x")
       IN IF Len(parts) # 2 THEN field_text
          ELSE LET x_mm == Float(parts[1])
                   y_mm == Float(parts[2])
               IN IF ~x_mm.ok \/ ~y_mm.ok THEN field_text
                  ELSE Fmt0(FDivInt(x_mm, 10))
                         \o <<" ", "c", "m", " ", "X", " ">>
                         \o Fmt0(FDivInt(y_mm, 10)) \o <<" ", "c", "m">>

\* energy_unit(modality), for a modality that is a str
energy_unit(modality) ==
  IF StartsWith(Lower(modality), <<"p", "h", "o", "t", "o", "n">>)
  THEN <<"M", "V">> ELSE <<"M", "e", "V">>

\* format_energy_with_fff(energy, fff_value): None and "" are falsy
format_energy_with_fff(energy, fff_value) ==
  LET energy_str == Str(energy)
  IN IF fff_value # None /\ fff_value # <<>> /\ Upper(fff_value) = <<"Y", "E", "S">>
     THEN energy_str \o <<" ", "F", "F", "F">>
     ELSE energy_str

\* ------------------------------------------------------------------------
\* QCW PARSER: extract_worklists

\* the loop of extract_worklists over the TrendData elements: worklist id ->
\* declared name (or Worklist_<id>), the first record of an id deciding
RECURSIVE WorklistsLoop(_, _)
WorklistsLoop(trends, worklists) ==
  IF trends = <<>> THEN worklists
  ELSE LET worklist == Head(trends).Worklist
           worklist_name ==
             IF worklist.Name = Absent \/ worklist.Name = None
             THEN <<"W", "o", "r", "k", "l", "i", "s", "t", "_">> \o Str(worklist.id)
             ELSE Strip(worklist.Name)
       IN IF ~worklist.present THEN WorklistsLoop(Tail(trends), worklists)
          ELSE IF DictHas(worklists, worklist.id)
          THEN WorklistsLoop(Tail(trends), worklists)
          ELSE WorklistsLoop(Tail(trends),
                             DictSet(worklists, worklist.id, worklist_name))

\* extract_worklists(file_path) on the bytes read, a well-formed document
extract_worklists(content) == WorklistsLoop(content.trends, <<>>)

\* ------------------------------------------------------------------------
\* QCW PARSER: the body of the loop of parse_qcw_with_mapping

\* the norm of a stored float: sign and fraction, without the parse status
Num(f) == [neg |-> f.neg, num |-> f.num, den |-> f.den]

\* if param.tag == "Wedge": continue, in the loop over the tolerances
NormSkips(param) == param.tag = Wedge

\* a measurement kept whatever its tag
MeasSkipsNothing(param) == FALSE

\* if param.tag == "Wedge": continue, in the loop over the measurements
MeasSkips(param) == param.tag = Wedge

\* "Extract Norm values": the loop over AdminData/AnalyzeParams/*.
\* [exc, norm_values]; exc is "" unless float(norm_tag.text) raises
RECURSIVE NormLoop(_, _)
NormLoop(analyze_params, norm_values) ==
  IF analyze_params = <<>> THEN [exc |-> "", norm_values |-> norm_values]
  ELSE LET param == Head(analyze_params)
       IN IF NormSkips(param) THEN NormLoop(Tail(analyze_params), norm_values)
          ELSE IF param.Norm = Absent THEN NormLoop(Tail(analyze_params), norm_values)
          ELSE LET f == Float(param.Norm)
               IN IF ~f.ok THEN [exc |-> f.exc, norm_values |-> norm_values]
                  ELSE NormLoop(Tail(analyze_params),
                                DictSet(norm_values, param.tag, Num(f)))

\* abs(deviation) >= 3.0
DeviationFailsAtThree(deviation) == deviation.num >= 3 * deviation.den

\* abs(deviation) > 3.0
DeviationFails(deviation) == AbsGreater(deviation, 3)

\* a zero norm reported as a failure
ZeroNormFlagged == [dev_formatted |-> <<"0", ".", "0", "0">>, failed |-> TRUE]

\* norm == 0: dev_formatted = "0.00", nothing appended to failed_tests
ZeroNorm == [dev_formatted |-> <<"0", ".", "0", "0">>, failed |-> FALSE]

\* a parameter without norm reported like a zero norm
NoNormAsZero == [dev_formatted |-> <<"0", ".", "0", "0">>, failed |-> FALSE]

\* the tag is not in norm_values: dev_formatted = "N/A"
NoNorm == [dev_formatted |-> <<"N", "/", "A">>, failed |-> FALSE]

\* "Calculate % deviation from Norm": [dev_formatted, failed] of one value
Deviation(tag, meas_value, norm_values) ==
  IF DictHas(norm_values, tag)
  THEN LET norm == DictGet(norm_values, tag)
       IN IF ~IsZero(norm)
          THEN LET deviation == FMulInt(FDiv(FSub(meas_value, norm), norm), 100)
               IN [dev_formatted |-> Fmt2(deviation),
                   failed |-> DeviationFails(deviation)]
          ELSE ZeroNorm
  ELSE NoNorm

\* "Extract measured values": the loop over the children of AnalyzeValues.
\* [exc, measured, failed_tests]; exc is "" unless float(value_tag.text) raises
RECURSIVE MeasLoop(_, _, _, _, _)
MeasLoop(analyze_values, norm_values, energy_with_unit, measured, failed_tests) ==
  IF analyze_values = <<>>
  THEN [exc |-> "", measured |-> measured, failed_tests |-> failed_tests]
  ELSE LET param == Head(analyze_values)
           rest  == Tail(analyze_values)
       IN IF MeasSkips(param) \/ param.Value = Absent
          THEN MeasLoop(rest, norm_values, energy_with_unit, measured, failed_tests)
          ELSE LET f == Float(param.Value)
               IN IF ~f.ok
                  THEN [exc |-> f.exc, measured |-> measured,
                        failed_tests |-> failed_tests]
                  ELSE LET d == Deviation(param.tag, Num(f), norm_values)
                       IN MeasLoop(rest, norm_values, energy_with_unit,
                            DictSet(measured, param.tag,
                                    [value |-> Fmt2(Num(f)),
                                     deviation |-> d.dev_formatted]),
                            IF d.failed
                            THEN Append(failed_tests,
                                        [parameter |-> param.tag,
                                         deviation |-> d.dev_formatted,
                                         energy |-> energy_with_unit])
                            ELSE failed_tests)

\* the fallback of extract_worklists, f"Worklist_{worklist_id}", used here
MachineNameAsWorklist(mapping, worklist_id) ==
  DictGetDefault(mapping, worklist_id,
                 <<"W", "o", "r", "k", "l", "i", "s", "t", "_">> \o Str(worklist_id))

\* machine_name_mapping.get(worklist_id, f"Machine_{worklist_id}")
MachineName(mapping, worklist_id) ==
  DictGetDefault(mapping, worklist_id,
                 <<"M", "a", "c", "h", "i", "n", "e", "_">> \o Str(worklist_id))

\* trend.get("date").split(" ")[0]
DateStr(date) == Split(date, " ")[1]

\* The values of the loop's local names before the first iteration assigns
\* them (the names are then unbound)
Unbound == <<"Unbound">>

NoLocals ==
  [date_str |-> Unbound, machine_name |-> Unbound, field |-> Unbound,
   energy_with_unit |-> Unbound, norm_values |-> <<>>,
   measured |-> <<>>, failed_tests |-> <<>>]

\* One iteration of "for trend in root.findall('.//TrendData')" ends in one
\* of three ways: at "raise" (exc names the exception; the locals go with
\* the frame), at "continue", or at "append" (the block made of the locals
\* is appended at date_str, machine_name, field).
Raises(e) == [at |-> "raise", exc |-> e, locals |-> NoLocals]

Continues(l) == [at |-> "continue", exc |-> "", locals |-> l]

Appends(l) == [at |-> "append", exc |-> "", locals |-> l]

\* the end of the iteration, once the measured values are extracted
AppendBody(l, meas) ==
  IF meas.exc # "" THEN Raises(meas.exc)
  ELSE Appends([l EXCEPT !.measured = meas.measured,
                         !.failed_tests = meas.failed_tests])

\* from "Extract measured values" on
MeasBody(trend, l) ==
  IF ~trend.MeasData.present THEN Continues(l)
  ELSE IF ~trend.MeasData.hasAnalyzeValues THEN Continues(l)
  ELSE AppendBody(l, MeasLoop(trend.MeasData.AnalyzeValues, l.norm_values,
                              l.energy_with_unit, <<>>, <<>>))

\* the end of "Extract Norm values": float(norm_tag.text) has raised, or
\* norm_values is bound
NormsDone(trend, l, norms) ==
  IF norms.exc # "" THEN Raises(norms.exc)
  ELSE MeasBody(trend, [l EXCEPT !.norm_values = norms.norm_values])

\* from "Extract Norm values" on
NormBody(trend, l) ==
  NormsDone(trend, l, NormLoop(trend.Worklist.AnalyzeParams, <<>>))

\* f"{energy_display} {unit}"
EnergyWithUnit(worklist) ==
  format_energy_with_fff(worklist.Energy,
                         IF worklist.FFF # Absent THEN worklist.FFF ELSE <<"N", "o">>)
    \o <<" ">> \o energy_unit(worklist.Modality)

\* from worklist = trend.find("Worklist") on; find(...).text raises on a
\* missing Energy, Modality or Fieldsize, energy_unit on a Modality
\* without text
WorklistBody(trend, mapping, l) ==
  IF ~trend.Worklist.present THEN Continues(l)
  ELSE IF \/ trend.Worklist.Energy = Absent
          \/ trend.Worklist.Modality = Absent
          \/ trend.Worklist.Fieldsize = Absent THEN Raises("AttributeError")
  ELSE IF trend.Worklist.Modality = None THEN Raises("AttributeError")
  ELSE NormBody(trend,
         [l EXCEPT !.machine_name = MachineName(mapping, trend.Worklist.id),
                   !.field = format_fieldsize_mm_to_cm(trend.Worklist.Fieldsize),
                   !.energy_with_unit = EnergyWithUnit(trend.Worklist)])

\* the whole iteration, from the locals l of the iterations before; None
\* has no split
TrendBody(trend, mapping, l) ==
  IF trend.date = None THEN Raises("AttributeError")
  ELSE WorklistBody(trend, mapping, [l EXCEPT !.date_str = DateStr(trend.date)])

\* energy_data of the iteration that left the locals l
EnergyData(l) ==
  [energy |-> l.energy_with_unit, measured |-> l.measured,
   failed_tests |-> l.failed_tests]

\* dates_data[date_str][machine_name][field] = [energy_data]
DatesAssign(dates_data, date_str, machine_name, field, energy_data) ==
  LET machines == DictGetDefault(dates_data, date_str, <<>>)
      fields   == DictGetDefault(machines, machine_name, <<>>)
  IN DictSet(dates_data, date_str,
       DictSet(machines, machine_name, DictSet(fields, field, <<energy_data>>)))

\* a block merged into the block of the bucket that has its energy label
DatesMergeByEnergy(dates_data, date_str, machine_name, field, energy_data) ==
  LET machines == DictGetDefault(dates_data, date_str, <<>>)
      fields   == DictGetDefault(machines, machine_name, <<>>)
      energies == DictGetDefault(fields, field, <<>>)
      same     == {k \in 1..Len(energies) : energies[k].energy = energy_data.energy}
      merged   ==
        IF same = {} THEN Append(energies, energy_data)
        ELSE LET k == CHOOSE k \in same : TRUE
             IN [energies EXCEPT
                   ![k].measured = energy_data.measured,
                   ![k].failed_tests = @ \o energy_data.failed_tests]
  IN DictSet(dates_data, date_str,
       DictSet(machines, machine_name, DictSet(fields, field, merged)))

\* dates_data[date_str][machine_name][field].append(energy_data); the
\* defaultdicts make each missing level on first use
DatesAppend(dates_data, date_str, machine_name, field, energy_data) ==
  LET machines == DictGetDefault(dates_data, date_str, <<>>)
      fields   == DictGetDefault(machines, machine_name, <<>>)
      energies == DictGetDefault(fields, field, <<>>)
  IN DictSet(dates_data, date_str,
       DictSet(machines, machine_name,
         DictSet(fields, field, Append(energies, energy_data))))

\* sorted(keys): insertion sort by str <
RECURSIVE Sorted(_)
SortInsert(sorted, k) ==
  LET n == Cardinality({i \in 1..Len(sorted) : ~StrLess(k, sorted[i])})
  IN SubSeq(sorted, 1, n) \o <<k>> \o SubSeq(sorted, n + 1, Len(sorted))

Sorted(keys) ==
  IF keys = <<>> THEN <<>>
  ELSE SortInsert(Sorted(SubSeq(keys, 1, Len(keys) - 1)), keys[Len(keys)])

\* the conversion without sorted()
ToRegularDictUnsorted(dates_data) == dates_data

\* "Convert to regular dict": the dates in sorted order, the levels below
\* copied in their own order
ToRegularDict(dates_data) ==
  LET dates == Sorted(DictKeys(dates_data))
  IN [i \in 1..Len(dates) |-> [key |-> dates[i], val |-> DictGet(dates_data, dates[i])]]

\* ------------------------------------------------------------------------
\* Inputs: QCW documents and name mappings

\* an element of AdminData/AnalyzeParams: its tag and the text of its Norm,
\* Min, Max and Target children
NormParam(tag, norm) ==
  [tag |-> tag, Norm |-> norm, Min |-> Absent, Max |-> Absent, Target |-> Absent]

TripleParam(tag, lo, hi, target) ==
  [tag |-> tag, Norm |-> Absent, Min |-> lo, Max |-> hi, Target |-> target]

\* an element of MeasData/AnalyzeValues: its tag and the text of its Value
Meas(tag, value) == [tag |-> tag, Value |-> value]

MkWorklist(id, name, energy, modality, fieldsize, fff, params) ==
  [present |-> TRUE, id |-> id, Name |-> name, Energy |-> energy,
   Modality |-> modality, Fieldsize |-> fieldsize, FFF |-> fff,
   AnalyzeParams |-> params]

\* a TrendData without a Worklist child
NoWorklist ==
  [present |-> FALSE, id |-> None, Name |-> Absent, Energy |-> Absent,
   Modality |-> Absent, Fieldsize |-> Absent, FFF |-> Absent,
   AnalyzeParams |-> <<>>]

MeasData(values) ==
  [present |-> TRUE, hasAnalyzeValues |-> TRUE, AnalyzeValues |-> values]

\* a TrendData without a MeasData descendant
NoMeasData ==
  [present |-> FALSE, hasAnalyzeValues |-> FALSE, AnalyzeValues |-> <<>>]

\* a MeasData without an AnalyzeValues child
NoAnalyzeValues ==
  [present |-> TRUE, hasAnalyzeValues |-> FALSE, AnalyzeValues |-> <<>>]

TrendData(date, worklist, meas) ==
  [date |-> date, Worklist |-> worklist, MeasData |-> meas]

\* the bytes of a file: an optional UTF-8 byte-order mark, then a document
\* that is well-formed XML (with these TrendData elements) or is not
File(bom, wellformed, trends) ==
  [bom |-> bom, wellformed |-> wellformed, trends |-> trends]

CAX == <<"C", "A", "X">>
Flatness == <<"F", "l", "a", "t", "n", "e", "s", "s">>

Date1 == <<"2", "0", "2", "4", "-", "0", "1", "-", "0", "2", " ", "0", "8", ":", "0", "0", ":", "0", "0">>
Date1Later == <<"2", "0", "2", "4", "-", "0", "1", "-", "0", "2", " ", "1", "7", ":", "3", "0", ":", "0", "0">>
Date0 == <<"2", "0", "2", "4", "-", "0", "1", "-", "0", "1", " ", "0", "9", ":", "0", "0", ":", "0", "0">>

Photons == <<"P", "h", "o", "t", "o", "n", "s">>
Electrons == <<"E", "l", "e", "c", "t", "r", "o", "n", "s">>

Field100 == <<"1", "0", "0", "x", "1", "0", "0">>
Field104 == <<"1", "0", "0", "x", "1", "0", "4">>
Field200 == <<"2", "0", "0", "x", "2", "0", "0">>
FieldRandom == <<"r", "a", "n", "d", "o", "m">>

\* bounds of the inputs
MaxTrends == 2
MaxParams == 2
MaxValues == 2

SeqsUpTo(S, n) == UNION {[1..k -> S] : k \in 0..n}

\* tolerance definitions: a norm, a zero norm, a Min/Max/Target triple, and
\* a norm for Wedge
ParamDefs ==
  { NormParam(CAX, <<"1", "0", "0", ".", "0">>),
    NormParam(CAX, <<"0">>),
    TripleParam(CAX, <<"9", "6", ".", "0">>, <<"1", "0", "3", ".", "0">>, <<"1", "0", "0", ".", "0">>),
    NormParam(Wedge, <<"1", "0", "0", ".", "0">>) }

\* measured parameters: on the 3% boundary, above it, below -3%, of a
\* parameter without tolerance, and of Wedge
ValueDefs ==
  { Meas(CAX, <<"1", "0", "3", ".", "0">>),
    Meas(CAX, <<"1", "0", "3", ".", "1">>),
    Meas(CAX, <<"9", "6", ".", "0">>),
    Meas(Flatness, <<"1", ".", "5">>),
    Meas(Wedge, <<"5", "0", ".", "0">>) }

Worklist1(params) ==
  MkWorklist(<<"1">>, <<"L", "A", "1">>, <<"6">>, Photons, Field100, Absent, params)

\* documents of one record, for the deviation rules
DeviationFiles ==
  { File(FALSE, TRUE, <<TrendData(Date1, Worklist1(ps), MeasData(vs))>>) :
      ps \in SeqsUpTo(ParamDefs, MaxParams), vs \in SeqsUpTo(ValueDefs, MaxValues) }

CaxNorm == <<NormParam(CAX, <<"1", "0", "0", ".", "0">>)>>

\* a well-formed record of worklist id, with its date, field size and value
Record(date, id, fieldsize, value) ==
  TrendData(date,
            IF id = <<"1">>
            THEN MkWorklist(id, <<"L", "A", "1">>, <<"6">>, Photons, fieldsize, Absent, CaxNorm)
            ELSE MkWorklist(id, Absent, <<"9">>, Electrons, fieldsize, <<"Y", "e", "s">>, CaxNorm),
            MeasData(<<Meas(CAX, value)>>))

GoodRecords ==
  { Record(d, id, Field100, <<"1", "0", "0", ".", "5">>) : d \in {Date0, Date1}, id \in {<<"1">>, <<"2">>} }
  \cup
  { Record(Date1, <<"1">>, Field200, <<"1", "0", "0", ".", "5">>),
    \* the same date later in the day, a field size that rounds to 10 cm X 10 cm
    Record(Date1Later, <<"1">>, Field104, <<"9", "6", ".", "0">>),
    \* the same date, worklist and field size as a record above, out of tolerance
    Record(Date1Later, <<"1">>, Field100, <<"9", "6", ".", "0">>),
    Record(Date1, <<"1">>, FieldRandom, <<"1", ".", "0", "0", "5", "e", "2">>),
    \* the same worklist id under another declared name, photons with FFF
    TrendData(Date1,
              MkWorklist(<<"1">>, <<"L", "A", "2">>, <<"6">>, <<"p", "h", "o", "t", "o", "n", "s">>, Field100, <<"y", "e", "s">>, CaxNorm),
              MeasData(<<Meas(CAX, <<"9", "6", ".", "0">>)>>)),
    \* no id attribute, an empty Energy and an empty Fieldsize element
    TrendData(Date0, MkWorklist(None, Absent, None, Photons, None, None, <<>>),
              MeasData(<<Meas(CAX, <<"1", "0", "0", ".", "5">>)>>)) }

\* records without a Worklist, without a measurement block, or with an
\* AnalyzeValues element that has no children or no Value
SkippedRecords ==
  { TrendData(Date1, NoWorklist, MeasData(<<Meas(CAX, <<"1", "0", "0", ".", "5">>)>>)),
    TrendData(Date1, Worklist1(CaxNorm), NoMeasData),
    TrendData(Date1, Worklist1(CaxNorm), NoAnalyzeValues),
    TrendData(Date1, Worklist1(CaxNorm), MeasData(<<>>)),
    TrendData(Date0, Worklist1(CaxNorm), MeasData(<<Meas(CAX, Absent)>>)) }

\* records with one malformed field: a Value or a Norm that is no number,
\* no date attribute, no Energy element
MalformedRecords ==
  { TrendData(Date1, Worklist1(CaxNorm), MeasData(<<Meas(CAX, <<"a", "b", "c">>)>>)),
    TrendData(Date1, Worklist1(<<NormParam(CAX, <<"a", "b", "c">>)>>),
              MeasData(<<Meas(CAX, <<"1", "0", "0", ".", "5">>)>>)),
    TrendData(None, NoWorklist, MeasData(<<Meas(CAX, <<"1", "0", "0", ".", "5">>)>>)),
    TrendData(Date1,
              MkWorklist(<<"1">>, <<"L", "A", "1">>, Absent, Photons, Field100, Absent, CaxNorm),
              MeasData(<<Meas(CAX, <<"1", "0", "0", ".", "5">>)>>)) }

Records == GoodRecords \cup SkippedRecords \cup MalformedRecords

\* documents of up to MaxTrends records, with and without a byte-order mark
AggregationFiles ==
  { File(FALSE, TRUE, ts) : ts \in SeqsUpTo(Records, MaxTrends) }
  \cup { File(TRUE, TRUE, <<t>>) : t \in GoodRecords }

\* the texts of a width or a height: whole millimetres (multiples of ten
\* and not, under a centimetre), a signed number, a number with a point or
\* an exponent, blanks around the digits, no text, and no number
FieldPieces ==
  { <<"1", "0", "0">>, <<"1", "0", "4">>, <<"1", "0", "5">>, <<"1", "1", "5">>,
    <<"4">>, <<"-", "1", "0", "0">>, <<"1", "0", "0", ".", "5">>, <<"1", "e", "2">>,
    <<" ", "1", "0", "0", " ">>, <<>>, <<"a", "b", "c">> }

\* field-size texts: every width x height, and texts with no x, with a
\* capital X and with two x
FieldTexts ==
  { w \o <<"x">> \o h : w \in FieldPieces, h \in FieldPieces }
  \cup { FieldRandom, <<>>,
         <<"1", "0", "0", "X", "1", "0", "0">>,
         <<"1", "0", "0", "x", "1", "0", "0", "x", "1", "0", "0">> }

\* documents of one record, for the field-size conversion
FieldFiles ==
  { File(FALSE, TRUE, <<Record(Date1, <<"1">>, t, <<"1", "0", "0", ".", "5">>)>>) :
      t \in FieldTexts }

\* files that are not well-formed XML
MalformedFiles == { File(b, FALSE, <<>>) : b \in BOOLEAN }

\* name mappings: none, and worklist 1 named as the fallback name of
\* worklist 2
Mappings ==
  { <<>>,
    <<[key |-> <<"1">>, val |-> <<"M", "a", "c", "h", "i", "n", "e", "_", "2">>]>> }

Inputs ==
  (DeviationFiles \X {<<>>})
    \cup (FieldFiles \X {<<>>})
    \cup (AggregationFiles \X Mappings)
    \cup (MalformedFiles \X {<<>>})

\* ------------------------------------------------------------------------
\* The web application: clients, uploaded files, sessions

\* the clients, each with its own session cookie
Sessions == {"s1", "s2"}

\* the names clients give the files they upload
Filenames == {"a.qcw", "b.qcw"}

\* the files clients upload: one record of worklist 1; a record of worklist
\* 2 and a record of worklist 1 without measurements, after a byte-order
\* mark; a record whose Value is no number
WebFiles ==
  { File(FALSE, TRUE, <<Record(Date1, <<"1">>, Field100, <<"1", "0", "0", ".", "5">>)>>),
    File(TRUE, TRUE, <<Record(Date0, <<"2">>, Field200, <<"9", "6", ".", "0">>),
                       TrendData(Date1, Worklist1(CaxNorm), NoMeasData)>>),
    File(FALSE, TRUE, <<TrendData(Date1, Worklist1(CaxNorm),
                                  MeasData(<<Meas(CAX, <<"a", "b", "c">>)>>))>>) }

\* the forms of the mapping page: no custom name, and a custom name for
\* worklist 1
Forms ==
  { <<>>, <<[key |-> <<"1">>, val |-> <<" ", "L", "A", "9">>]>> }

\* bounds: the requests of each kind a client makes
MaxUploads == 1
MaxMappings == 1

\* no file of that name in UPLOAD_FOLDER
NoFile == [exists |-> FALSE]

\* a file opened for writing and not written yet: no XML document
Truncated == File(FALSE, FALSE, <<>>)

\* a cookie without filename and worklists; uploaded is the file the client
\* sent in the request that set the cookie
NoSession ==
  [filename |-> "", worklists |-> <<>>, uploaded |-> NoFile,
   data |-> <<>>, machine_name_mapping |-> <<>>]

\* no request under way; uploads and mappings count the requests made
NoRequest ==
  [at |-> "idle", filename |-> "", content |-> NoFile, mapping |-> <<>>,
   uploads |-> 0, mappings |-> 0]

\* no client has called the parser
NoCaller == "none"

\* ------------------------------------------------------------------------
\* The state machine: calls of parse_qcw_with_mapping(file_path,
\* machine_name_mapping) on one file

VARIABLES
  file,                  \* the bytes at file_path
  machine_name_mapping,  \* the argument of the call
  pc,                    \* "open", "loop", "done" (returned) or "raised"
  root,                  \* the TrendData elements of the parsed tree
  i,                     \* the number of TrendData elements iterated
  dates_data,            \* date -> machine -> field size -> energy blocks
  locals,                \* the local names the loop body assigns
  at,                    \* where the last iteration ended: "continue", "append"
  result,                \* the value returned
  exc,                   \* the exception raised
  first,                 \* the outcome of the first call, once it is over
  uploads,               \* UPLOAD_FOLDER: the bytes of the file of each name
  session,               \* the session cookie of each client
  request,               \* the request of each client that is under way
  caller                 \* the client whose request has called the parser

\* the state of the web application around the parser
web == <<uploads, session, request, caller>>

vars == <<file, machine_name_mapping, pc, root, i, dates_data, locals, at,
          result, exc, first, uploads, session, request, caller>>

\* the web application before any request
WebInit ==
  /\ uploads = [n \in Filenames |-> NoFile]
  /\ session = [s \in Sessions |-> NoSession]
  /\ request = [s \in Sessions |-> NoRequest]
  /\ caller = NoCaller

\* no call is over yet
NoOutcome == [pc |-> "", result |-> <<>>, exc |-> ""]

\* a dates_data kept from call to call
KeptDatesData == dates_data

\* dates_data = defaultdict(...): a new, empty dict in every call
NewDatesData == <<>>

Init ==
  /\ \E input \in Inputs :
       /\ file = input[1]
       /\ machine_name_mapping = input[2]
  /\ pc = "open"
  /\ root = <<>>
  /\ i = 0
  /\ dates_data = <<>>
  /\ locals = NoLocals
  /\ at = ""
  /\ result = <<>>
  /\ exc = ""
  /\ first = NoOutcome
  /\ WebInit

\* content = f.read() with the byte-order mark stripped
Content == [file EXCEPT !.bom = FALSE]

\* root = ET.fromstring(content) on a well-formed document
Open ==
  /\ pc = "open"
  /\ Content.wellformed
  /\ root' = Content.trends
  /\ dates_data' = NewDatesData
  /\ i' = 0
  /\ pc' = "loop"
  /\ UNCHANGED <<file, machine_name_mapping, locals, at, result, exc, first>>
  /\ UNCHANGED web

\* ET.fromstring(content) raises ParseError
OpenRaise ==
  /\ pc = "open"
  /\ ~Content.wellformed
  /\ pc' = "raised"
  /\ exc' = "ParseError"
  /\ UNCHANGED <<file, machine_name_mapping, root, i, dates_data, locals, at,
                 result, first>>
  /\ UNCHANGED web

\* the iteration on the next TrendData element
Body == TrendBody(root[i + 1], machine_name_mapping, locals)

Bodies == {Body}

InLoop == pc = "loop" /\ i < Len(root)

\* an iteration that raises: the exception leaves the function
TrendRaise ==
  /\ InLoop
  /\ \E b \in Bodies :
       /\ b.at = "raise"
       /\ exc' = b.exc
       /\ locals' = b.locals
  /\ pc' = "raised"
  /\ at' = ""
  /\ UNCHANGED <<file, machine_name_mapping, root, i, dates_data, result, first>>
  /\ UNCHANGED web

\* an iteration that ends in one of the three continue statements
TrendContinue ==
  /\ InLoop
  /\ \E b \in Bodies :
       /\ b.at = "continue"
       /\ locals' = b.locals
  /\ i' = i + 1
  /\ at' = "continue"
  /\ UNCHANGED <<file, machine_name_mapping, pc, root, dates_data, result, exc,
                 first>>
  /\ UNCHANGED web

\* an iteration that appends its energy block
TrendAppend ==
  /\ InLoop
  /\ \E b \in Bodies :
       /\ b.at = "append"
       /\ locals' = b.locals
       /\ dates_data' =
            DatesAppend(dates_data, b.locals.date_str, b.locals.machine_name,
                        b.locals.field, EnergyData(b.locals))
  /\ i' = i + 1
  /\ at' = "append"
  /\ UNCHANGED <<file, machine_name_mapping, pc, root, result, exc, first>>
  /\ UNCHANGED web

\* after the loop: the conversion to a regular dict, and the return
Return ==
  /\ pc = "loop"
  /\ i = Len(root)
  /\ result' = ToRegularDict(dates_data)
  /\ pc' = "done"
  /\ UNCHANGED <<file, machine_name_mapping, root, i, dates_data, locals, at,
                 exc, first>>
  /\ UNCHANGED web

\* a second call on the same file with the same mapping, after the first
\* has returned or raised; the new call binds every name anew
CallAgain ==
  /\ pc \in {"done", "raised"}
  /\ first = NoOutcome
  /\ first' = [pc |-> pc, result |-> result, exc |-> exc]
  /\ pc' = "open"
  /\ root' = <<>>
  /\ i' = 0
  /\ locals' = NoLocals
  /\ at' = ""
  /\ result' = <<>>
  /\ exc' = ""
  /\ UNCHANGED <<file, machine_name_mapping, dates_data>>
  /\ UNCHANGED web

\* one call
Next ==
  \/ Open
  \/ OpenRaise
  \/ TrendRaise
  \/ TrendContinue
  \/ TrendAppend
  \/ Return

Spec == Init /\ [][Next]_vars

\* two calls in a row
NextTwice ==
  \/ Next
  \/ CallAgain

SpecTwice == Init /\ [][NextTwice]_vars

\* ------------------------------------------------------------------------
\* ROUTES: the POST requests of index and worklist_mapping.  The requests of
\* different clients interleave at their accesses to UPLOAD_FOLDER.  A call
\* of the parser works on names of its own once it has read the file, so
\* the one frame of the variables above serves the calls one after another.

\* the variables of the frame of the parser
parser == <<file, machine_name_mapping, pc, root, i, dates_data, locals, at,
            result, exc, first>>

\* machine_name_mapping of worklist_mapping: for each worklist id of the
\* session the stripped custom name of the form, or the name of the session
BuildMapping(worklists, form) ==
  [k \in 1..Len(worklists) |->
     LET wl_id == worklists[k].key
         custom_name == DictGetDefault(form, wl_id, None)
     IN [key |-> wl_id,
         val |-> IF custom_name # None /\ custom_name # <<>>
                 THEN Strip(custom_name) ELSE worklists[k].val]]

\* index, POST: file.save(file_path) opens UPLOAD_FOLDER/filename to write
IndexSaveOpen(s) ==
  /\ request[s].at = "idle"
  /\ request[s].uploads < MaxUploads
  /\ \E filename \in Filenames, content \in WebFiles :
       /\ request' = [request EXCEPT ![s].at = "saving",
                                     ![s].filename = filename,
                                     ![s].content = content,
                                     ![s].uploads = @ + 1]
       /\ uploads' = [uploads EXCEPT ![filename] = Truncated]
  /\ UNCHANGED <<session, caller>>
  /\ UNCHANGED parser

\* file.save(file_path) writes the bytes of the upload
IndexSaveWrite(s) ==
  /\ request[s].at = "saving"
  /\ uploads' = [uploads EXCEPT ![request[s].filename] = request[s].content]
  /\ request' = [request EXCEPT ![s].at = "saved"]
  /\ UNCHANGED <<session, caller>>
  /\ UNCHANGED parser

\* extract_worklists(file_path) reads the file that is there now; filename
\* and worklists go to the session
IndexExtract(s) ==
  /\ request[s].at = "saved"
  /\ uploads[request[s].filename].wellformed
  /\ session' = [session EXCEPT
                   ![s].filename = request[s].filename,
                   ![s].worklists = extract_worklists(uploads[request[s].filename]),
                   ![s].uploaded = request[s].content]
  /\ request' = [request EXCEPT ![s].at = "idle"]
  /\ UNCHANGED <<uploads, caller>>
  /\ UNCHANGED parser

\* extract_worklists raises ParseError: the request fails, the session stays
IndexExtractRaise(s) ==
  /\ request[s].at = "saved"
  /\ ~uploads[request[s].filename].wellformed
  /\ request' = [request EXCEPT ![s].at = "idle"]
  /\ UNCHANGED <<uploads, session, caller>>
  /\ UNCHANGED parser

\* worklist_mapping, POST, up to os.path.exists(file_path): the session has
\* worklists and a filename, and a file of that name exists
MappingPost(s) ==
  /\ request[s].at = "idle"
  /\ request[s].mappings < MaxMappings
  /\ session[s].worklists # <<>>
  /\ session[s].filename # ""
  /\ uploads[session[s].filename] # NoFile
  /\ \E form \in Forms :
       request' = [request EXCEPT
                     ![s].at = "checked",
                     ![s].mapping = BuildMapping(session[s].worklists, form),
                     ![s].mappings = @ + 1]
  /\ UNCHANGED <<uploads, session, caller>>
  /\ UNCHANGED parser

\* parse_qcw_with_mapping(file_path, machine_name_mapping) is called and
\* reads the file that is there now
MappingCall(s) ==
  /\ request[s].at = "checked"
  /\ pc = "idle"
  /\ file' = uploads[session[s].filename]
  /\ machine_name_mapping' = request[s].mapping
  /\ pc' = "open"
  /\ caller' = s
  /\ request' = [request EXCEPT ![s].at = "parsing"]
  /\ UNCHANGED <<root, i, dates_data, locals, at, result, exc, first>>
  /\ UNCHANGED <<uploads, session>>

\* the frame of the parser when no call is under way
ParserIdle ==
  /\ file = NoFile
  /\ machine_name_mapping = <<>>
  /\ pc = "idle"
  /\ root = <<>>
  /\ i = 0
  /\ dates_data = <<>>
  /\ locals = NoLocals
  /\ at = ""
  /\ result = <<>>
  /\ exc = ""
  /\ first = NoOutcome

\* the frame of the call is gone
ParserReset ==
  /\ file' = NoFile
  /\ machine_name_mapping' = <<>>
  /\ pc' = "idle"
  /\ root' = <<>>
  /\ i' = 0
  /\ dates_data' = <<>>
  /\ locals' = NoLocals
  /\ at' = ""
  /\ result' = <<>>
  /\ exc' = ""
  /\ first' = NoOutcome

\* the call has returned: dates_data is saved under a new data_id, data_id
\* and the mapping go to the session
MappingReturn(s) ==
  /\ caller = s
  /\ pc = "done"
  /\ session' = [session EXCEPT ![s].data = result,
                                ![s].machine_name_mapping = machine_name_mapping]
  /\ request' = [request EXCEPT ![s].at = "idle"]
  /\ caller' = NoCaller
  /\ ParserReset
  /\ UNCHANGED uploads

\* the call has raised: the request fails, the session stays
MappingRaise(s) ==
  /\ caller = s
  /\ pc = "raised"
  /\ request' = [request EXCEPT ![s].at = "idle"]
  /\ caller' = NoCaller
  /\ ParserReset
  /\ UNCHANGED <<uploads, session>>

InitWeb == ParserIdle /\ WebInit

\* the requests of the clients and the steps of the parser they call
NextWeb ==
  \/ \E s \in Sessions : IndexSaveOpen(s)
  \/ \E s \in Sessions : IndexSaveWrite(s)
  \/ \E s \in Sessions : IndexExtract(s)
  \/ \E s \in Sessions : IndexExtractRaise(s)
  \/ \E s \in Sessions : MappingPost(s)
  \/ \E s \in Sessions : MappingCall(s)
  \/ \E s \in Sessions : MappingReturn(s)
  \/ \E s \in Sessions : MappingRaise(s)
  \/ Next

SpecWeb == InitWeb /\ [][NextWeb]_vars

\* ------------------------------------------------------------------------
\* Properties

\* the TrendData element of the iteration just made
Trend == root[i]

\* the state right after an iteration that appended its block
Appended == pc = "loop" /\ at = "append"

\* the children of AnalyzeValues that carry a measurement of tag
Observations(trend, tag) ==
  SelectSeq(trend.MeasData.AnalyzeValues,
            LAMBDA c : c.tag = tag /\ c.Value # Absent)

\* the failed_tests entries that name tag
FailuresOf(failed_tests, tag) ==
  SelectSeq(failed_tests, LAMBDA f : f.parameter = tag)

Signed(x) == IF x.neg THEN 0 - x.num ELSE x.num

Abs(n) == IF n < 0 THEN 0 - n ELSE n

\* |(m - n) / n * 100| > 3 for a measured value m and a norm n # 0, in
\* integers: |100 (m - n)| > 3 |n|
MoreThanThreePercent(m, n) ==
  100 * Abs(Signed(m) * n.den - Signed(n) * m.den) > 3 * Abs(Signed(n) * m.den)

\* text is a number written with exactly two decimals, within half a
\* hundredth of the percentage (m - n) / n * 100
IsTwoDecimalPercentage(text, m, n) ==
  LET parts == Split(text, ".")
      f == Float(text)
      \* (m - n) / n * 100 = pn / pd
      pn == 100 * (Signed(m) * n.den - Signed(n) * m.den)
      pd == Signed(n) * m.den
  IN /\ Len(parts) = 2 /\ Len(parts[2]) = 2
     /\ f.ok /\ f.den = 100
     /\ 2 * Abs(Signed(f) * pd - 100 * pn) <= 100 * Abs(pd)

\* C1: no well-formed document makes parse_qcw_with_mapping raise: a record
\* with a malformed or missing field is skipped or degraded, and the call
\* still returns.
C1_NeverRaisesOnARecord == file.wellformed => pc # "raised"

C3_ZeroNormIsZeroDeviation ==
  Appended =>
    \A k \in 1..Len(locals.norm_values) :
      LET tag == locals.norm_values[k].key
      IN Signed(locals.norm_values[k].val) = 0 =>
           /\ FailuresOf(locals.failed_tests, tag) = <<>>
           /\ Observations(Trend, tag) # <<>> =>
                /\ DictHas(locals.measured, tag)
                /\ DictGet(locals.measured, tag).deviation = <<"0", ".", "0", "0">>

\* C3 witness: measured 103.1 against norm 0
C3_Witness ==
  /\ Appended
  /\ Trend.Worklist.AnalyzeParams = <<NormParam(CAX, <<"0">>)>>
  /\ locals.measured = <<[key |-> CAX, val |-> [value |-> <<"1", "0", "3", ".", "1", "0">>, deviation |-> <<"0", ".", "0", "0">>]]>>
  /\ locals.failed_tests = <<>>

\* the buckets of a date -> machine -> field size -> blocks dict, in order
RECURSIVE Concat(_)
Concat(ss) == IF ss = <<>> THEN <<>> ELSE Head(ss) \o Concat(Tail(ss))

Buckets(dd) ==
  Concat([a \in 1..Len(dd) |->
    Concat([b \in 1..Len(dd[a].val) |->
      [c \in 1..Len(dd[a].val[b].val) |->
        [date    |-> dd[a].key,
         machine |-> dd[a].val[b].key,
         field   |-> dd[a].val[b].val[c].key,
         blocks  |-> dd[a].val[b].val[c].val]]])])

NumBlocks(dd) == Len(Concat([k \in 1..Len(Buckets(dd)) |-> Buckets(dd)[k].blocks]))

\* the TrendData element has a Worklist and a MeasData with an AnalyzeValues
HasBlock(trend) ==
  /\ trend.Worklist.present
  /\ trend.MeasData.present
  /\ trend.MeasData.hasAnalyzeValues

C5_EveryObservationOnce ==
  Appended =>
    Len(locals.measured) =
      Len(SelectSeq(Trend.MeasData.AnalyzeValues,
                    LAMBDA c : c.tag # Wedge /\ c.Value # Absent))

\* the keys in the order in which they are first seen
RECURSIVE FirstSeen(_)
FirstSeen(keys) ==
  IF keys = <<>> THEN <<>>
  ELSE LET front == FirstSeen(SubSeq(keys, 1, Len(keys) - 1))
           last  == keys[Len(keys)]
       IN IF \E k \in 1..Len(front) : front[k] = last THEN front
          ELSE Append(front, last)

\* the records of the file that yield a block, in file order, with the
\* path of each
Yielding ==
  LET ts == SelectSeq(root, HasBlock)
  IN [k \in 1..Len(ts) |->
       [date    |-> DateStr(ts[k].date),
        machine |-> MachineName(machine_name_mapping, ts[k].Worklist.id),
        field   |-> format_fieldsize_mm_to_cm(ts[k].Worklist.Fieldsize),
        block   |-> EnergyData(TrendBody(ts[k], machine_name_mapping, NoLocals).locals)]]

Project(recs, Key(_)) == [k \in 1..Len(recs) |-> Key(recs[k])]

\* C6: the dates of the result ascend; the machines of a date, the field
\* sizes of a machine and the blocks of a field size are in the order in
\* which the file first shows them.
C6_DatesSortedRestFirstSeen ==
  pc = "done" =>
    /\ \A a \in 1..(Len(result) - 1) : StrLess(result[a].key, result[a + 1].key)
    /\ \A a \in 1..Len(result) :
         LET ofDate == SelectSeq(Yielding, LAMBDA r : r.date = result[a].key)
         IN /\ DictKeys(result[a].val) = FirstSeen(Project(ofDate, LAMBDA r : r.machine))
            /\ \A b \in 1..Len(result[a].val) :
                 LET ofMachine ==
                       SelectSeq(ofDate, LAMBDA r : r.machine = result[a].val[b].key)
                 IN /\ DictKeys(result[a].val[b].val)
                         = FirstSeen(Project(ofMachine, LAMBDA r : r.field))
                    /\ \A c \in 1..Len(result[a].val[b].val) :
                         result[a].val[b].val[c].val
                           = Project(SelectSeq(ofMachine,
                                       LAMBDA r : r.field = result[a].val[b].val[c].key),
                                     LAMBDA r : r.block)

\* C6 witness: the file has the later date first, the result the earlier
C6_Witness ==
  /\ pc = "done"
  /\ Len(root) = 2
  /\ DictKeys(dates_data) = <<Split(Date1, " ")[1], Split(Date0, " ")[1]>>
  /\ DictKeys(result) = <<Split(Date0, " ")[1], Split(Date1, " ")[1]>>

\* C7: a second call on the same file with the same mapping ends as the
\* first did: the same result (keys, order, values) or the same exception.
C7_SecondCallSameOutcome ==
  (first # NoOutcome /\ pc \in {"done", "raised"}) =>
    [pc |-> pc, result |-> result, exc |-> exc] = first

\* C7 witness: both calls have returned a result of two dates
C7_Witness ==
  /\ first # NoOutcome
  /\ first.pc = "done"
  /\ pc = "done"
  /\ Len(result) = 2

\* the status of a reported measurement
StatusOf(entry) == IF "status" \in DOMAIN entry THEN entry.status ELSE "none"

\* x <= y on fractions
FLeq(x, y) == Signed(x) * y.den <= Signed(y) * x.den

\* the status that the triple mode gives a measurement
TripleStatus(value, param) ==
  LET m  == Float(value)
      lo == Float(param.Min)
      hi == Float(param.Max)
  IN IF ~m.ok \/ ~lo.ok \/ ~hi.ok THEN "NOT_APPLICABLE"
     ELSE IF FLeq(lo, m) /\ FLeq(m, hi) THEN "PASS" ELSE "FAIL"

IsTriple(param) ==
  param.Min # Absent /\ param.Max # Absent /\ param.Target # Absent

\* C8: under a worklist whose parameters carry Min, Max and Target, each
\* measured parameter is reported with the status PASS if min <= measured
\* <= max, FAIL otherwise, NOT_APPLICABLE if a number does not parse.
C8_TripleModeStatus ==
  Appended =>
    \A k \in 1..Len(Trend.Worklist.AnalyzeParams) :
      LET param == Trend.Worklist.AnalyzeParams[k]
          obs   == Observations(Trend, param.tag)
      IN (/\ param.tag # Wedge
          /\ \A j \in 1..Len(Trend.Worklist.AnalyzeParams) :
               IsTriple(Trend.Worklist.AnalyzeParams[j])
          /\ obs # <<>>) =>
           /\ DictHas(locals.measured, param.tag)
           /\ StatusOf(DictGet(locals.measured, param.tag))
                = TripleStatus(obs[Len(obs)].Value, param)

\* the worklist defines a tolerance for tag
HasTolerance(trend, tag) ==
  \E k \in 1..Len(trend.Worklist.AnalyzeParams) :
    trend.Worklist.AnalyzeParams[k].tag = tag

\* C9: a measured parameter (other than Wedge) without tolerance definition
\* is reported with the deviation "N/A" and is not in failed_tests; a
\* parameter with a tolerance definition and no measurement is not in the
\* measurements of the record.
C9_MissingToleranceOrMeasurement ==
  Appended =>
    /\ \A k \in 1..Len(Trend.MeasData.AnalyzeValues) :
         LET c == Trend.MeasData.AnalyzeValues[k]
         IN (c.tag # Wedge /\ c.Value # Absent /\ ~HasTolerance(Trend, c.tag)) =>
              /\ DictHas(locals.measured, c.tag)
              /\ DictGet(locals.measured, c.tag).deviation = <<"N", "/", "A">>
              /\ FailuresOf(locals.failed_tests, c.tag) = <<>>
    /\ \A k \in 1..Len(Trend.Worklist.AnalyzeParams) :
         LET tag == Trend.Worklist.AnalyzeParams[k].tag
         IN Observations(Trend, tag) = <<>> => ~DictHas(locals.measured, tag)

\* C9 witness: CAX has a norm and no measurement, Flatness a measurement
\* and no norm
C9_Witness ==
  /\ Appended
  /\ DictKeys(locals.norm_values) = <<CAX>>
  /\ locals.measured
       = <<[key |-> Flatness, val |-> [value |-> <<"1", ".", "5", "0">>, deviation |-> <<"N", "/", "A">>]]>>
  /\ locals.failed_tests = <<>>

\* the machine key the mapping strategy gives a worklist id
MappedName(id) ==
  LET hits == {k \in 1..Len(machine_name_mapping) : machine_name_mapping[k].key = id}
  IN IF hits # {} THEN machine_name_mapping[CHOOSE k \in hits : TRUE].val
     ELSE <<"M", "a", "c", "h", "i", "n", "e", "_">> \o (IF id = None THEN <<"N", "o", "n", "e">> ELSE id)

\* C10: the machine key of a record is mapping[id] if the mapping has the
\* id and "Machine_<id>" if not, whatever Name the record declares; every
\* machine key of the result is such a key of a record of its date.
C10_MachineKeyFromMappingOnly ==
  /\ (pc = "loop" /\ at # "" /\ Trend.Worklist.present) =>
       locals.machine_name = MappedName(Trend.Worklist.id)
  /\ pc = "done" =>
       \A b \in 1..Len(Buckets(result)) :
         \E k \in 1..Len(root) :
           /\ HasBlock(root[k])
           /\ Split(root[k].date, " ")[1] = Buckets(result)[b].date
           /\ Buckets(result)[b].machine = MappedName(root[k].Worklist.id)

\* C10 witness: a record of worklist 1 that declares the name LA1 is filed
\* under the name the mapping gives, and a record of worklist 2 under
\* Machine_2
C10_Witness ==
  /\ Appended
  /\ i = 2
  /\ machine_name_mapping # <<>>
  /\ root[1].Worklist.id = <<"1">> /\ root[1].Worklist.Name = <<"L", "A", "1">>
  /\ root[2].Worklist.id = <<"2">> /\ root[2].Worklist.Name = Absent
  /\ Project(Buckets(dates_data), LAMBDA r : r.machine) = <<<<"M", "a", "c", "h", "i", "n", "e", "_", "2">>>>

\* the children of an element other than those tagged Wedge
WithoutWedge(children) == SelectSeq(children, LAMBDA c : c.tag # Wedge)

\* the record without its Wedge tolerance and its Wedge measurements
StripWedge(trend) ==
  [trend EXCEPT !.Worklist.AnalyzeParams = WithoutWedge(@),
                !.MeasData.AnalyzeValues = WithoutWedge(@)]

\* no block of the dict has a measurement or a failure named Wedge
NoWedgeIn(dd) ==
  \A b \in 1..Len(Buckets(dd)) :
    \A k \in 1..Len(Buckets(dd)[b].blocks) :
      /\ ~DictHas(Buckets(dd)[b].blocks[k].measured, Wedge)
      /\ FailuresOf(Buckets(dd)[b].blocks[k].failed_tests, Wedge) = <<>>

\* C11: Wedge is excluded everywhere: no block has a measurement keyed
\* Wedge or a failed_tests entry naming Wedge, no norm is kept for Wedge, and
\* the block of a record is the block of the same record without its Wedge
\* tolerance and Wedge measurements (a Wedge tolerance enters no deviation).
C11_WedgeExcluded ==
  /\ Appended =>
       /\ ~DictHas(locals.norm_values, Wedge)
       /\ ~DictHas(locals.measured, Wedge)
       /\ FailuresOf(locals.failed_tests, Wedge) = <<>>
       /\ EnergyData(locals)
            = EnergyData(TrendBody(StripWedge(Trend), machine_name_mapping,
                                   NoLocals).locals)
  /\ pc = "loop" => NoWedgeIn(dates_data)
  /\ pc = "done" => NoWedgeIn(result)

\* C11 witness: the record defines a norm for Wedge and for CAX and measures
\* Wedge 50.0 and CAX 103.1; its block reports CAX alone
C11_Witness ==
  /\ pc = "done"
  /\ Len(root) = 1
  /\ root[1].Worklist.AnalyzeParams
       = <<NormParam(Wedge, <<"1", "0", "0", ".", "0">>), NormParam(CAX, <<"1", "0", "0", ".", "0">>)>>
  /\ root[1].MeasData.AnalyzeValues
       = <<Meas(Wedge, <<"5", "0", ".", "0">>), Meas(CAX, <<"1", "0", "3", ".", "1">>)>>
  /\ DictKeys(locals.norm_values) = <<CAX>>
  /\ DictKeys(locals.measured) = <<CAX>>
  /\ Project(locals.failed_tests, LAMBDA f : f.parameter) = <<CAX>>
  /\ NumBlocks(result) = 1

\* a text of digits: the {int} of the form "{int}x{int}"
IsIntText(s) == s # <<>> /\ AllDigits(s)

\* the text has the form "{int}x{int}"
IsIntByInt(text) ==
  /\ text # None
  /\ Len(Split(text, "x")) = 2
  /\ IsIntText(Split(text, "x")[1])
  /\ IsIntText(Split(text, "x")[2])

\* a tenth of the whole number written mm, in decimal notation: "100" is
\* "10", "104" is "10.4"
TenthOf(mm) ==
  LET n == DigitsVal(mm)
  IN NatStr(n \div 10) \o (IF n % 10 = 0 THEN <<>> ELSE <<".", Digits[(n % 10) + 1]>>)

\* the centimetre text of a "{int}x{int}" text
InCentimetres(text) ==
  TenthOf(Split(text, "x")[1]) \o <<" ", "c", "m", " ", "X", " ">>
    \o TenthOf(Split(text, "x")[2]) \o <<" ", "c", "m">>

\* the iteration just made has called format_fieldsize_mm_to_cm
FieldFormatted == pc = "loop" /\ at # "" /\ Trend.Worklist.present

\* C12: format_fieldsize_mm_to_cm maps a text "{int}x{int}" in millimetres
\* to "<W/10> cm X <H/10> cm" and returns every other text unchanged; no
\* input makes it raise.
C12_FieldsizeFormOrUnchanged ==
  FieldFormatted =>
    locals.field =
      IF IsIntByInt(Trend.Worklist.Fieldsize)
      THEN InCentimetres(Trend.Worklist.Fieldsize)
      ELSE Trend.Worklist.Fieldsize

\* the path of a bucket or of a record: date, machine name, field size
PathOf(r) == <<r.date, r.machine, r.field>>

\* the blocks of the records of the file filed under the path, in file order
BlocksAt(path) ==
  Project(SelectSeq(Yielding, LAMBDA r : PathOf(r) = path), LAMBDA r : r.block)

\* C13: the records that share date, resolved machine name and normalized
\* field size are in one bucket, each as its own block in file order (blocks
\* with the same energy label are not merged, a block holds the failures of
\* its own record only); records that differ in one of the three are in
\* different buckets.
C13_OneBucketPerPath ==
  pc = "done" =>
    LET bs == Buckets(result)
    IN /\ \A a, b \in 1..Len(bs) : PathOf(bs[a]) = PathOf(bs[b]) => a = b
       /\ \A b \in 1..Len(bs) : bs[b].blocks = BlocksAt(PathOf(bs[b]))
       /\ \A k \in 1..Len(Yielding) :
            \E b \in 1..Len(bs) : PathOf(bs[b]) = PathOf(Yielding[k])

\* C13 witness: two records of worklist 1 on one date with one field size
\* and one energy label, CAX 100.5 and CAX 96.0 against the norm 100.0: one
\* bucket of two blocks, the second alone failing CAX with -4.00
C13_Witness ==
  /\ pc = "done"
  /\ root = <<Record(Date1, <<"1">>, Field100, <<"1", "0", "0", ".", "5">>),
              Record(Date1Later, <<"1">>, Field100, <<"9", "6", ".", "0">>)>>
  /\ Len(Buckets(result)) = 1
  /\ Len(Buckets(result)[1].blocks) = 2
  /\ Buckets(result)[1].blocks[1].energy = Buckets(result)[1].blocks[2].energy
  /\ Buckets(result)[1].blocks[1].failed_tests = <<>>
  /\ Buckets(result)[1].blocks[2].failed_tests
       = <<[parameter |-> CAX, deviation |-> <<"-", "4", ".", "0", "0">>,
            energy |-> <<"6", " ", "M", "V">>]>>

\* the blocks of a date -> machine -> field size -> blocks dict
BlocksOf(dd) == Concat(Project(Buckets(dd), LAMBDA b : b.blocks))

\* the deviation text is a number of absolute value above 3
ExceedsThree(text) == Float(text).ok /\ AbsGreater(Float(text), 3)

\* the failure list of the block agrees with its measurement map
FailuresAgree(block) ==
  /\ \A j \in 1..Len(block.failed_tests) :
       LET f == block.failed_tests[j]
       IN /\ DictHas(block.measured, f.parameter)
          /\ DictGet(block.measured, f.parameter).deviation = f.deviation
          /\ f.energy = block.energy
  /\ \A k \in 1..Len(block.measured) :
       ExceedsThree(block.measured[k].val.deviation) =>
         Len(FailuresOf(block.failed_tests, block.measured[k].key)) = 1

\* C14: in every block the failure list agrees with the measurement map:
\* each failed_tests entry names a key of measured and carries the deviation
\* text of that measurement and the energy label of the block, and every
\* measurement with a deviation above 3% in absolute value has exactly one
\* failed_tests entry.
C14_FailuresAgreeWithMeasurements ==
  /\ pc = "loop" =>
       \A k \in 1..Len(BlocksOf(dates_data)) : FailuresAgree(BlocksOf(dates_data)[k])
  /\ pc = "done" =>
       \A k \in 1..Len(BlocksOf(result)) : FailuresAgree(BlocksOf(result)[k])

\* C15: whatever the interleaving of the upload and mapping requests of two
\* clients, the file the mapping request of a client parses is the file
\* that client uploaded, the one from which the worklists of its session
\* were extracted; an upload of another client, under the same filename
\* too, does not change it.
C15_MappingParsesOwnUpload ==
  (caller # NoCaller /\ pc = "open") =>
    /\ file = session[caller].uploaded
    /\ file.wellformed
    /\ session[caller].worklists = extract_worklists(file)

====
